---------------------------- MODULE Spec2Model ----------------------------
(***************************************************************************)
(* A model of the Ido container of src/src/lib.rs: an associative          *)
(* container from i32 keys to tagged values (IdoItem), with an order       *)
(* index (position -> key) and a position counter.                         *)
(*                                                                         *)
(* A container value is a record [m_items, m_idx, m_ordered]; the two      *)
(* HashMaps are functions on their key sets.  Text (String) is a sequence  *)
(* of one-character strings, so that formatting is computed character by   *)
(* character.  Option<T> is a sequence of length at most one: None is      *)
(* << >> and Some(x) is <<x>>.  A panic (the unwrap of lib.rs line 87) is   *)
(* the result Panic.  An f64 is modelled by its number of halves (3 is     *)
(* 1.5), which covers the values the model stores.  An i64 is its 64-bit   *)
(* two's complement pattern in 16-bit limbs, so that the narrowing casts   *)
(* of the integer getters keep their widths.  m_datetime is kept at its    *)
(* default: no setter of the library writes it.                            *)
(***************************************************************************)
EXTENDS Integers, Sequences, FiniteSets, TLC

VARIABLES
    ido,        \* the container under test (an Ido value)
    last,       \* the call that produced the current state: [op, key, arg,
                \* was], was being the variant tag ido held at the key when
                \* the call was made (None when it did not hold the key)
    fresh,      \* a second container, constructed at the last clear() of ido
                \* (or with ido) and given the same calls since
    assigned,   \* positions that set_item has handed out in ido's lifetime
    recent,     \* the positions handed out since the last clear(), in order
    written     \* the keys passed to set_item, a typed setter or append_array
                \* since the construction of ido or its last clear()

vars == <<ido, last, fresh, assigned, recent, written>>

(***************************************************************************)
(* Bounds of the model.                                                    *)
(***************************************************************************)
MaxIdx == 4            \* set_item is not called once m_idx has reached this
MaxArrayLen == 2       \* append_array is not called on an array this long
MaxCastSets == 2       \* set_integer calls of a behaviour of SpecCast

Keys == {1, 2}         \* keys the calls on ido use

(***************************************************************************)
(* Types and values.                                                       *)
(***************************************************************************)
STRING_T == "STRING"
INTEGER_T == "INTEGER"
FLOAT_T == "FLOAT"
DATETIME_T == "DATETIME"
ARRAY_T == "ARRAY"
IdoItemType == {STRING_T, INTEGER_T, FLOAT_T, DATETIME_T, ARRAY_T}

None == << >>
Some(x) == <<x>>
Panic == <<"PANIC">>

(***************************************************************************)
(* Fixed-width integers.  An integer of 16, 32 or 64 bits is the sequence  *)
(* of its 16-bit limbs in two's complement, the least significant first;   *)
(* an integer of 8 bits is one limb below 2^8.  Whether a pattern is read  *)
(* as signed or unsigned is its Rust type's affair, not the pattern's.     *)
(***************************************************************************)
Limb == 2^16

\* the i64 of a number that fits 32 bits
I64(n) ==
    LET ext == IF n < 0 THEN Limb - 1 ELSE 0
    IN  <<n % Limb, (n \div Limb) % Limb, ext, ext>>

\* a cast that saturates at the bounds of i8
as_i8_saturating(v) ==
    IF v[4] >= Limb \div 2
    THEN (IF v[2] = Limb - 1 /\ v[3] = Limb - 1 /\ v[1] >= Limb - 2^7
          THEN <<v[1] % 2^8>> ELSE <<2^7>>)
    ELSE (IF v[2] = 0 /\ v[3] = 0 /\ v[4] = 0 /\ v[1] < 2^7
          THEN <<v[1]>> ELSE <<2^7 - 1>>)

\* the casts `as i8` ... `as u64` of an i64: the low bits are kept
as_i8(v) == <<v[1] % 2^8>>
as_u8(v) == <<v[1] % 2^8>>
as_i16(v) == SubSeq(v, 1, 1)
as_u16(v) == SubSeq(v, 1, 1)
as_i32(v) == SubSeq(v, 1, 2)
as_u32(v) == SubSeq(v, 1, 2)
as_u64(v) == v

\* IdoItem::new()
IdoItem_new ==
    [ m_key |-> 0, m_index |-> 0, m_string |-> << >>, m_type |-> STRING_T,
      m_integer |-> I64(0), m_float |-> 0, m_datetime |-> "MIN_UTC",
      m_array |-> << >> ]

\* Ido::new()
new == [ m_items |-> << >>, m_idx |-> 0, m_ordered |-> << >> ]

(***************************************************************************)
(* HashMap insert and remove on functions.                                 *)
(***************************************************************************)
MapInsert(f, k, v) ==
    [ j \in (DOMAIN f) \cup {k} |-> IF j = k THEN v ELSE f[j] ]

MapRemove(f, k) == [ j \in (DOMAIN f) \ {k} |-> f[j] ]

(***************************************************************************)
(* Mutating methods, as functions from the container before the call to    *)
(* the container after it.                                                 *)
(***************************************************************************)
\* clear with the order index left as it is
clear_keeps_order(s) ==
    [ m_items |-> << >>, m_idx |-> 0, m_ordered |-> s.m_ordered ]

\* clear with the counter left as it is
clear_keeps_counter(s) ==
    [ m_items |-> << >>, m_idx |-> s.m_idx, m_ordered |-> << >> ]

clear(s) == [ m_items |-> << >>, m_idx |-> 0, m_ordered |-> << >> ]

\* update that takes the other container's value map as it is
update_replaces(s, other) == [ s EXCEPT !.m_items = other.m_items ]

\* update that also copies the other container's order entries
update_copies_order(s, other) ==
    [ s EXCEPT !.m_items =
        [ j \in (DOMAIN s.m_items) \cup (DOMAIN other.m_items) |->
            IF j \in DOMAIN other.m_items THEN other.m_items[j]
            ELSE s.m_items[j] ],
               !.m_ordered =
        [ p \in (DOMAIN s.m_ordered) \cup (DOMAIN other.m_ordered) |->
            IF p \in DOMAIN other.m_ordered THEN other.m_ordered[p]
            ELSE s.m_ordered[p] ] ]

update(s, other) ==
    [ s EXCEPT !.m_items =
        [ j \in (DOMAIN s.m_items) \cup (DOMAIN other.m_items) |->
            IF j \in DOMAIN other.m_items THEN other.m_items[j]
            ELSE s.m_items[j] ] ]

\* set_item without the removal of the key's old order entry
set_item_keeps_old_entry(s, key, item0) ==
    LET item == [ item0 EXCEPT !.m_key = key, !.m_index = s.m_idx ]
    IN  [ m_items |-> MapInsert(s.m_items, key, item),
          m_ordered |-> MapInsert(s.m_ordered, s.m_idx, key),
          m_idx |-> s.m_idx + 1 ]

\* set_item that leaves the value of a key it already holds
set_item_keeps_existing(s, key, item0) ==
    LET item == [ item0 EXCEPT !.m_key = key, !.m_index = s.m_idx ]
        ord1 == IF key \in DOMAIN s.m_items
                THEN MapRemove(s.m_ordered, s.m_items[key].m_index)
                ELSE s.m_ordered
    IN  [ m_items |-> IF key \in DOMAIN s.m_items
                      THEN [ s.m_items EXCEPT ![key].m_index = s.m_idx ]
                      ELSE MapInsert(s.m_items, key, item),
          m_ordered |-> MapInsert(ord1, s.m_idx, key),
          m_idx |-> s.m_idx + 1 ]

\* set_item that increments the counter for a new key only
set_item_counts_new_keys(s, key, item0) ==
    LET item == [ item0 EXCEPT !.m_key = key, !.m_index = s.m_idx ]
        ord1 == IF key \in DOMAIN s.m_items
                THEN MapRemove(s.m_ordered, s.m_items[key].m_index)
                ELSE s.m_ordered
    IN  [ m_items |-> MapInsert(s.m_items, key, item),
          m_ordered |-> MapInsert(ord1, s.m_idx, key),
          m_idx |-> IF key \in DOMAIN s.m_items THEN s.m_idx ELSE s.m_idx + 1 ]

\* set_item that leaves the m_key the caller put in the item
set_item_keeps_m_key(s, key, item0) ==
    LET item == [ item0 EXCEPT !.m_index = s.m_idx ]
        ord1 == IF key \in DOMAIN s.m_items
                THEN MapRemove(s.m_ordered, s.m_items[key].m_index)
                ELSE s.m_ordered
    IN  [ m_items |-> MapInsert(s.m_items, key, item),
          m_ordered |-> MapInsert(ord1, s.m_idx, key),
          m_idx |-> s.m_idx + 1 ]

\* set_item without the increment of the counter
set_item_no_increment(s, key, item0) ==
    LET item == [ item0 EXCEPT !.m_key = key, !.m_index = s.m_idx ]
        ord1 == IF key \in DOMAIN s.m_items
                THEN MapRemove(s.m_ordered, s.m_items[key].m_index)
                ELSE s.m_ordered
    IN  [ m_items |-> MapInsert(s.m_items, key, item),
          m_ordered |-> MapInsert(ord1, s.m_idx, key),
          m_idx |-> s.m_idx ]

set_item(s, key, item0) ==
    LET item == [ item0 EXCEPT !.m_key = key, !.m_index = s.m_idx ]
        ord1 == IF key \in DOMAIN s.m_items
                THEN MapRemove(s.m_ordered, s.m_items[key].m_index)
                ELSE s.m_ordered
    IN  [ m_items |-> MapInsert(s.m_items, key, item),
          m_ordered |-> MapInsert(ord1, s.m_idx, key),
          m_idx |-> s.m_idx + 1 ]

StringItem(val) == [ IdoItem_new EXCEPT !.m_type = STRING_T, !.m_string = val ]
IntegerItem(val) == [ IdoItem_new EXCEPT !.m_type = INTEGER_T, !.m_integer = val ]
FloatItem(val) == [ IdoItem_new EXCEPT !.m_type = FLOAT_T, !.m_float = val ]
EmptyArrayItem == [ IdoItem_new EXCEPT !.m_type = ARRAY_T, !.m_array = << >> ]

\* set_string that writes m_string of an item the key already holds, in place
set_string_in_place(s, key, val) ==
    IF key \in DOMAIN s.m_items
    THEN set_item(s, key, [ s.m_items[key] EXCEPT !.m_string = val ])
    ELSE set_item(s, key, StringItem(val))

set_string(s, key, val) == set_item(s, key, StringItem(val))
set_integer(s, key, val) == set_item(s, key, IntegerItem(val))
set_f64(s, key, val) == set_item(s, key, FloatItem(val))
empty_array(s, key) == set_item(s, key, EmptyArrayItem)

\* whether append_array takes its empty_array branch
NeedsEmptyArray(s, key) ==
    IF key \in DOMAIN s.m_items
    THEN s.m_items[key].m_type # ARRAY_T
    ELSE TRUE

\* append_array that starts from an empty array on every call
append_array_resets(s, key, data) ==
    LET s1 == empty_array(s, key)
    IN  [ s1 EXCEPT !.m_items[key].m_type = ARRAY_T,
                    !.m_items[key].m_array = Append(@, data) ]

append_array(s, key, data) ==
    LET s1 == IF NeedsEmptyArray(s, key) THEN empty_array(s, key) ELSE s
    IN  IF key \in DOMAIN s1.m_items
        THEN [ s1 EXCEPT !.m_items[key].m_type = ARRAY_T,
                         !.m_items[key].m_array = Append(@, data) ]
        ELSE s1

\* delete_item that removes the order entry at the position numbered like
\* the key, whether or not the key is held
delete_item_unconditional(s, key) ==
    [ s EXCEPT !.m_ordered = MapRemove(@, key),
               !.m_items = MapRemove(@, key) ]

delete_item(s, key) ==
    IF key \in DOMAIN s.m_items
    THEN [ s EXCEPT !.m_ordered = MapRemove(@, s.m_items[key].m_index),
                    !.m_items = MapRemove(@, key) ]
    ELSE s

(***************************************************************************)
(* Queries.                                                                *)
(***************************************************************************)
size(s) == Cardinality(DOMAIN s.m_items)
contains(s, key) == key \in DOMAIN s.m_items
\* is_type that answers for the presence of the key alone
is_type_of_any(s, key, ty) == key \in DOMAIN s.m_items

is_type(s, key, ty) ==
    IF key \in DOMAIN s.m_items THEN s.m_items[key].m_type = ty ELSE FALSE
get_item(s, key) ==
    IF key \in DOMAIN s.m_items THEN Some(s.m_items[key]) ELSE None
get_string(s, key) ==
    IF key \in DOMAIN s.m_items
    THEN IF s.m_items[key].m_type # STRING_T THEN None
         ELSE Some(s.m_items[key].m_string)
    ELSE None
get_i64(s, key) ==
    IF key \in DOMAIN s.m_items
    THEN IF s.m_items[key].m_type # INTEGER_T THEN None
         ELSE Some(s.m_items[key].m_integer)
    ELSE None
\* get_i32 without the test of the variant tag
get_i32_unchecked(s, key) ==
    IF key \in DOMAIN s.m_items
    THEN Some(as_i32(s.m_items[key].m_integer))
    ELSE None

get_i32(s, key) ==
    IF key \in DOMAIN s.m_items
    THEN IF s.m_items[key].m_type # INTEGER_T THEN None
         ELSE Some(as_i32(s.m_items[key].m_integer))
    ELSE None
get_i16(s, key) ==
    IF key \in DOMAIN s.m_items
    THEN IF s.m_items[key].m_type # INTEGER_T THEN None
         ELSE Some(as_i16(s.m_items[key].m_integer))
    ELSE None
get_i8(s, key) ==
    IF key \in DOMAIN s.m_items
    THEN IF s.m_items[key].m_type # INTEGER_T THEN None
         ELSE Some(as_i8(s.m_items[key].m_integer))
    ELSE None
get_u64(s, key) ==
    IF key \in DOMAIN s.m_items
    THEN IF s.m_items[key].m_type # INTEGER_T THEN None
         ELSE Some(as_u64(s.m_items[key].m_integer))
    ELSE None
get_u32(s, key) ==
    IF key \in DOMAIN s.m_items
    THEN IF s.m_items[key].m_type # INTEGER_T THEN None
         ELSE Some(as_u32(s.m_items[key].m_integer))
    ELSE None
get_u16(s, key) ==
    IF key \in DOMAIN s.m_items
    THEN IF s.m_items[key].m_type # INTEGER_T THEN None
         ELSE Some(as_u16(s.m_items[key].m_integer))
    ELSE None
get_u8(s, key) ==
    IF key \in DOMAIN s.m_items
    THEN IF s.m_items[key].m_type # INTEGER_T THEN None
         ELSE Some(as_u8(s.m_items[key].m_integer))
    ELSE None
get_f64(s, key) ==
    IF key \in DOMAIN s.m_items
    THEN IF s.m_items[key].m_type # FLOAT_T THEN None
         ELSE Some(s.m_items[key].m_float)
    ELSE None


(***************************************************************************)
(* Ordered iteration.  The iterator borrows the container, so the          *)
(* container cannot change while an iteration runs: an iteration is a      *)
(* function of the container.                                              *)
(***************************************************************************)
\* Ido::into_ordered_iterator: the iterator's m_curr at its creation
into_ordered_iterator == 0

\* next that goes on to the next position the order index holds
next_skipping_gaps(s, m_curr) ==
    LET later == { p \in DOMAIN s.m_ordered : p >= m_curr }
    IN  IF later = {}
        THEN [ panic |-> FALSE, item |-> None, m_curr |-> m_curr ]
        ELSE LET p == CHOOSE q \in later : \A r \in later : q <= r
                 key == s.m_ordered[p]
             IN  IF key \notin DOMAIN s.m_items
                 THEN [ panic |-> TRUE, item |-> None, m_curr |-> m_curr ]
                 ELSE [ panic |-> FALSE,
                        item |-> Some(<<key, s.m_items[key]>>),
                        m_curr |-> p + 1 ]

\* OrderedIdoIterator::next at m_curr: what it returns and the new m_curr;
\* panic is the unwrap of a key that the value map does not hold
next(s, m_curr) ==
    IF m_curr \in DOMAIN s.m_ordered
    THEN LET key == s.m_ordered[m_curr]
         IN  IF get_item(s, key) = None
             THEN [ panic |-> TRUE, item |-> None, m_curr |-> m_curr ]
             ELSE [ panic |-> FALSE,
                    item |-> Some(<<key, get_item(s, key)[1]>>),
                    m_curr |-> m_curr + 1 ]
    ELSE [ panic |-> FALSE, item |-> None, m_curr |-> m_curr ]

\* the positions an iteration visits before it ends, in the order visited
RECURSIVE Visited(_, _)
Visited(s, m_curr) ==
    LET r == next(s, m_curr)
    IN  IF r.panic \/ r.item = None THEN << >>
        ELSE <<m_curr>> \o Visited(s, r.m_curr)

\* the pairs an iteration yields before it ends
RECURSIVE Yielded(_, _)
Yielded(s, m_curr) ==
    LET r == next(s, m_curr)
    IN  IF r.panic \/ r.item = None THEN << >>
        ELSE <<r.item[1]>> \o Yielded(s, r.m_curr)

\* whether an iteration ends in the panic
RECURSIVE Panics(_, _)
Panics(s, m_curr) ==
    LET r == next(s, m_curr)
    IN  IF r.panic THEN TRUE
        ELSE IF r.item = None THEN FALSE
        ELSE Panics(s, r.m_curr)

(***************************************************************************)
(* Formatting.                                                             *)
(***************************************************************************)
DigitChars == <<"0", "1", "2", "3", "4", "5", "6", "7", "8", "9">>

RECURSIVE NatToString(_)
NatToString(n) ==
    IF n < 10 THEN <<DigitChars[n + 1]>>
    ELSE NatToString(n \div 10) \o <<DigitChars[(n % 10) + 1]>>

\* Display of an i32 (a key)
IntToString(n) == IF n < 0 THEN <<"-">> \o NatToString(-n) ELSE NatToString(n)

\* the two's complement of a pattern: every limb inverted, then one added
RECURSIVE AddCarry(_, _, _)
AddCarry(v, i, carry) ==
    IF i > Len(v) THEN v
    ELSE AddCarry([ v EXCEPT ![i] = (v[i] + carry) % Limb ], i + 1,
                  (v[i] + carry) \div Limb)

Negated(v) == AddCarry([ i \in 1..Len(v) |-> Limb - 1 - v[i] ], 1, 1)

\* an unsigned pattern divided by ten: the quotient q and the remainder r
RECURSIVE DivTen(_, _, _)
DivTen(v, i, rem) ==
    IF i = 0 THEN [ q |-> v, r |-> rem ]
    ELSE DivTen([ v EXCEPT ![i] = (rem * Limb + v[i]) \div 10 ], i - 1,
                (rem * Limb + v[i]) % 10)

\* the decimal digits of an unsigned pattern
RECURSIVE UnsignedToString(_)
UnsignedToString(v) ==
    LET d == DivTen(v, Len(v), 0)
    IN  IF \A i \in 1..Len(v) : d.q[i] = 0 THEN <<DigitChars[d.r + 1]>>
        ELSE UnsignedToString(d.q) \o <<DigitChars[d.r + 1]>>

\* i64::to_string
I64ToString(v) ==
    IF v[Len(v)] >= Limb \div 2 THEN <<"-">> \o UnsignedToString(Negated(v))
    ELSE UnsignedToString(v)

\* Display of an f64 given by its number of halves
FloatToString(h) ==
    LET a == IF h < 0 THEN -h ELSE h
    IN  (IF h < 0 THEN <<"-">> ELSE << >>) \o NatToString(a \div 2)
        \o (IF a % 2 = 1 THEN <<".", "5">> ELSE << >>)

\* chrono's rendering of m_datetime, which is outside the repository
DateTimeText == <<"<datetime>">>

\* IdoItem::as_string
as_string(item) ==
    CASE item.m_type = STRING_T -> Some(item.m_string)
      [] item.m_type = FLOAT_T -> Some(FloatToString(item.m_float))
      [] item.m_type = INTEGER_T -> Some(I64ToString(item.m_integer))
      [] item.m_type = DATETIME_T -> Some(DateTimeText)
      [] item.m_type = ARRAY_T ->
            Some(<<"<", "a", "r", "r", "a", "y", " ", "o", "f", " ">>
                 \o NatToString(Len(item.m_array)) \o <<">">>)

\* IdoItem::get_type
get_type(item) == item.m_type

(***************************************************************************)
(* Ido::to_string.  ToStringLoop is the for loop over the ordered          *)
(* iterator with its locals result and count; WriteArray is the inner loop *)
(* over an ARRAY item's elements from element i on.                        *)
(***************************************************************************)
RECURSIVE to_string(_)
RECURSIVE ToStringLoop(_, _, _, _)
RECURSIVE WriteArray(_, _, _, _)

\* the array rendered by the text of as_string, without its elements
WriteArray_flat(result, key, m_array, i) ==
    result \o IntToString(key) \o <<"=", "<", "a", "r", "r", "a", "y", " ",
                                     "o", "f", " ">>
           \o NatToString(Len(m_array)) \o <<">">>

WriteArray(result, key, m_array, i) ==
    IF i > Len(m_array) THEN result
    ELSE LET inner == to_string(m_array[i])
         IN  IF inner = Panic THEN Panic
             ELSE WriteArray(result \o IntToString(key) \o <<"=", "[">>
                                 \o inner \o <<"]">>,
                             key, m_array, i + 1)

ToStringLoop(s, m_curr, result, count) ==
    LET r == next(s, m_curr)
    IN  IF r.panic THEN Panic
        ELSE IF r.item = None THEN result
        ELSE LET key == r.item[1][1]
                 value == r.item[1][2]
                 r1 == IF count # 0 THEN Append(result, ",") ELSE result
                 value_str == as_string(value)
                 r2 == IF value_str # None
                       THEN IF get_type(value) = ARRAY_T
                            THEN WriteArray(r1, key, value.m_array, 1)
                            ELSE r1 \o IntToString(key) \o <<"=">> \o value_str[1]
                       ELSE r1
                 count1 == IF value_str # None THEN count + 1 ELSE count
             IN  IF r2 = Panic THEN Panic
                 ELSE ToStringLoop(s, r.m_curr, r2, count1)

to_string(s) == ToStringLoop(s, into_ordered_iterator, << >>, 0)


(***************************************************************************)
(* Arguments of the calls.                                                 *)
(***************************************************************************)
StrA == <<"A">>
StrB == <<"B">>
StrC == <<"C">>
Strings == {StrA, StrB, StrC}
IntegerValues == {I64(32), I64(-42)}
FloatValues == {3}

\* another container: set_string(2, "B") then set_string(1, "C")
OtherA == set_string(set_string(new, 2, StrB), 1, StrC)

\* containers passed to append_array and to update
Others == {new, OtherA}

\* a container that holds key 2 only: set_integer(2, 32)
OtherB == set_integer(new, 2, I64(32))

\* containers passed to update
UpdateSources == Others \cup {OtherB}

\* items passed to set_item directly: an ARRAY item with no elements, and a
\* copy of an item of another container (its m_key and m_index are set there)
Items == { [IdoItem_new EXCEPT !.m_type = ARRAY_T], OtherA.m_items[1] }

(***************************************************************************)
(* The calls on ido.  Each is made on fresh too; assigned and recent        *)
(* collect the position that the stored item got from set_item, written    *)
(* the key.                                                                *)
(***************************************************************************)
\* the variant tag held at a key, as an Option
TypeAt(s, key) ==
    IF key \in DOMAIN s.m_items THEN Some(s.m_items[key].m_type) ELSE None

Init ==
    /\ ido = new
    /\ last = [ op |-> "new" ]
    /\ fresh = new
    /\ assigned = {}
    /\ recent = << >>
    /\ written = {}

SetItem(key, item) ==
    /\ ido.m_idx < MaxIdx
    /\ ido' = set_item(ido, key, item)
    /\ fresh' = set_item(fresh, key, item)
    /\ last' = [ op |-> "set_item", key |-> key, arg |-> item,
                 was |-> TypeAt(ido, key) ]
    /\ assigned' = assigned \cup {ido'.m_items[key].m_index}
    /\ recent' = Append(recent, ido'.m_items[key].m_index)
    /\ written' = written \cup {key}

SetString(key, val) ==
    /\ ido.m_idx < MaxIdx
    /\ ido' = set_string(ido, key, val)
    /\ fresh' = set_string(fresh, key, val)
    /\ last' = [ op |-> "set_string", key |-> key, arg |-> val,
                 was |-> TypeAt(ido, key) ]
    /\ assigned' = assigned \cup {ido'.m_items[key].m_index}
    /\ recent' = Append(recent, ido'.m_items[key].m_index)
    /\ written' = written \cup {key}

SetInteger(key, val) ==
    /\ ido.m_idx < MaxIdx
    /\ ido' = set_integer(ido, key, val)
    /\ fresh' = set_integer(fresh, key, val)
    /\ last' = [ op |-> "set_integer", key |-> key, arg |-> val,
                 was |-> TypeAt(ido, key) ]
    /\ assigned' = assigned \cup {ido'.m_items[key].m_index}
    /\ recent' = Append(recent, ido'.m_items[key].m_index)
    /\ written' = written \cup {key}

SetF64(key, val) ==
    /\ ido.m_idx < MaxIdx
    /\ ido' = set_f64(ido, key, val)
    /\ fresh' = set_f64(fresh, key, val)
    /\ last' = [ op |-> "set_f64", key |-> key, arg |-> val,
                 was |-> TypeAt(ido, key) ]
    /\ assigned' = assigned \cup {ido'.m_items[key].m_index}
    /\ recent' = Append(recent, ido'.m_items[key].m_index)
    /\ written' = written \cup {key}

AppendArray(key, data) ==
    /\ IF NeedsEmptyArray(ido, key)
       THEN ido.m_idx < MaxIdx
       ELSE Len(ido.m_items[key].m_array) < MaxArrayLen
    /\ ido' = append_array(ido, key, data)
    /\ fresh' = append_array(fresh, key, data)
    /\ last' = [ op |-> "append_array", key |-> key, arg |-> data,
                 was |-> TypeAt(ido, key) ]
    /\ assigned' = IF NeedsEmptyArray(ido, key)
                   THEN assigned \cup {ido'.m_items[key].m_index}
                   ELSE assigned
    /\ recent' = IF NeedsEmptyArray(ido, key)
                 THEN Append(recent, ido'.m_items[key].m_index)
                 ELSE recent
    /\ written' = written \cup {key}

DeleteItem(key) ==
    /\ ido' = delete_item(ido, key)
    /\ fresh' = delete_item(fresh, key)
    /\ last' = [ op |-> "delete_item", key |-> key,
                 was |-> TypeAt(ido, key) ]
    /\ UNCHANGED <<assigned, recent, written>>

Clear ==
    /\ ido' = clear(ido)
    /\ fresh' = new
    /\ last' = [ op |-> "clear" ]
    /\ recent' = << >>
    /\ written' = {}
    /\ UNCHANGED assigned

Update(other) ==
    /\ ido' = update(ido, other)
    /\ fresh' = update(fresh, other)
    /\ last' = [ op |-> "update", arg |-> other ]
    /\ UNCHANGED <<assigned, recent, written>>

\* every call but update
NextCore ==
    \/ \E key \in Keys, item \in Items : SetItem(key, item)
    \/ \E key \in Keys, val \in Strings : SetString(key, val)
    \/ \E key \in Keys, val \in IntegerValues : SetInteger(key, val)
    \/ \E key \in Keys, val \in FloatValues : SetF64(key, val)
    \/ \E key \in Keys, data \in Others : AppendArray(key, data)
    \/ \E key \in Keys : DeleteItem(key)
    \/ Clear

Next ==
    \/ NextCore
    \/ \E other \in UpdateSources : Update(other)

\* all public mutating calls
Spec == Init /\ [][Next]_vars

(***************************************************************************)
(* set_integer with values at and across the bounds of the narrower        *)
(* integer types, for the narrowing getters.                               *)
(***************************************************************************)
I64_MAX == <<Limb - 1, Limb - 1, Limb - 1, Limb \div 2 - 1>>
I64_MIN == <<0, 0, 0, Limb \div 2>>

\* 2^32 + 300, -(2^40) - 129 and 2^31: values that 32 bits do not hold
WideValues ==
    { <<300, 0, 1, 0>>, <<65407, 65535, 65279, 65535>>, <<0, 32768, 0, 0>>,
      I64_MAX, I64_MIN }

CastInputs ==
    { I64(n) : n \in { 0, 100, 127, 128, 255, 256, 300, -1, -42, -128, -129,
                       32767, 32768, 65535, 65536, 70000, -32768, -32769,
                       1000000, 2147483647, -2147483647 } }
        \cup WideValues

NextCast ==
    \E key \in Keys, val \in CastInputs :
        /\ ido.m_idx < MaxCastSets
        /\ SetInteger(key, val)

SpecCast == Init /\ [][NextCast]_vars

(***************************************************************************)
(* The program of src/examples/example_1.rs: its container e, and the four *)
(* calls that main makes on d, here in any order and any number of times.  *)
(***************************************************************************)
Blah == <<"B", "l", "a", "h">>
MoreBlah == <<"M", "o", "r", "e", " ", "B", "l", "a", "h">>
Nested == <<"n", "e", "s", "t", "e", "d">>
NestedTwo == <<"n", "e", "s", "t", "e", "d", "_", "t", "w", "o">>

Example_e == set_string(set_string(new, 100, Nested), 101, NestedTwo)

\* d when main prints it
Example_d ==
    set_integer(
        append_array(
            set_string(set_string(new, 1, Blah), 2, MoreBlah),
            3, Example_e),
        4, I64(32))

NextExample ==
    \/ SetString(1, Blah)
    \/ SetString(2, MoreBlah)
    \/ AppendArray(3, Example_e)
    \/ SetInteger(4, I64(32))

SpecExample == Init /\ [][NextExample]_vars

\* the calls other than update
SpecCore == Init /\ [][NextCore]_vars


(***************************************************************************)
(* Helpers of the properties.                                              *)
(***************************************************************************)
SetOps == {"set_item", "set_string", "set_integer", "set_f64"}

\* the call was set_item or a typed setter
IsSetCall(l) == l.op \in SetOps

\* the call ran set_item: a setter, or an append_array that found no ARRAY
RanSetItem(l) ==
    IsSetCall(l) \/ (l.op = "append_array" /\ l.was # Some(ARRAY_T))

\* the container held the key when the call was made
Had(l) == l.was # None

\* two items agree on the variant tag and on every payload field
SameVariantAndPayload(a, b) ==
    /\ a.m_type = b.m_type
    /\ a.m_string = b.m_string
    /\ a.m_integer = b.m_integer
    /\ a.m_float = b.m_float
    /\ a.m_datetime = b.m_datetime
    /\ a.m_array = b.m_array

\* what the getters return for the key after the call l stored its value
StoredAsPassed(s, l) ==
    CASE l.op = "set_item" ->
            /\ get_item(s, l.key) # None
            /\ SameVariantAndPayload(get_item(s, l.key)[1], l.arg)
      [] l.op = "set_string" ->
            /\ is_type(s, l.key, STRING_T)
            /\ get_string(s, l.key) = Some(l.arg)
            /\ get_item(s, l.key) # None
            /\ get_item(s, l.key)[1].m_string = l.arg
      [] l.op = "set_integer" ->
            /\ is_type(s, l.key, INTEGER_T)
            /\ get_i64(s, l.key) = Some(l.arg)
      [] l.op = "set_f64" ->
            /\ is_type(s, l.key, FLOAT_T)
            /\ get_f64(s, l.key) = Some(l.arg)

\* the typed getter of a variant; ARRAY and DATETIME have none
TypedGet(s, key, ty) ==
    CASE ty = STRING_T -> get_string(s, key)
      [] ty = INTEGER_T -> get_i64(s, key)
      [] ty = FLOAT_T -> get_f64(s, key)
      [] OTHER -> None

\* the smallest position that the order index does not hold
FirstGap(s) ==
    CHOOSE g \in 0..Cardinality(DOMAIN s.m_ordered) :
        /\ g \notin DOMAIN s.m_ordered
        /\ \A p \in 0..(g - 1) : p \in DOMAIN s.m_ordered

\* the keys an ordered iteration yields
YieldedKeys(s) ==
    { Yielded(s, into_ordered_iterator)[i][1] :
        i \in 1..Len(Yielded(s, into_ordered_iterator)) }

(***************************************************************************)
(* C1.  Without update, the order index is the exact inverse of the stored *)
(* positions: every key of the value map has exactly one order-index       *)
(* entry, at position m_items[k].m_index, and every order-index entry      *)
(* p -> k has k in the value map with m_items[k].m_index = p.              *)
(***************************************************************************)
C1_OrderIndexIsInverse ==
    /\ \A k \in DOMAIN ido.m_items :
          /\ ido.m_items[k].m_index \in DOMAIN ido.m_ordered
          /\ ido.m_ordered[ido.m_items[k].m_index] = k
          /\ Cardinality({ p \in DOMAIN ido.m_ordered : ido.m_ordered[p] = k }) = 1
    /\ \A p \in DOMAIN ido.m_ordered :
          /\ ido.m_ordered[p] \in DOMAIN ido.m_items
          /\ ido.m_items[ido.m_ordered[p]].m_index = p

\* a key was deleted after an overwrite: one key is left, behind a gap
C1_Witness ==
    /\ last.op = "delete_item"
    /\ Had(last)
    /\ ido.m_idx >= 3
    /\ size(ido) = 1
    /\ 0 \notin DOMAIN ido.m_ordered

(***************************************************************************)
(* C2.  An overwritten key moves to the end of the serialization order:    *)
(* set(1,"A"); set(2,"B"); set(1,"C") on a new container makes to_string() *)
(* return "2=B,1=C".                                                       *)
(***************************************************************************)
C2_Example == set_string(set_string(set_string(new, 1, StrA), 2, StrB), 1, StrC)

C2_ExampleText == <<"2", "=", "B", ",", "1", "=", "C">>

\* C2: after the three sets of the example, to_string() is "2=B,1=C" and the
\* ordered iteration yields both keys
C2_OverwrittenKeyMovesToEnd ==
    ido = C2_Example =>
        /\ to_string(ido) = C2_ExampleText
        /\ YieldedKeys(ido) = {1, 2}

(***************************************************************************)
(* C3.  Without update, an ordered iteration visits the positions 0, 1,    *)
(* 2, ... in increasing order and yields exactly the entries at the        *)
(* positions 0..g-1, g the smallest position the order index does not      *)
(* hold, and then stops: entries at positions above g are not yielded.     *)
(***************************************************************************)
C3_IterationStopsAtFirstGap ==
    LET g == FirstGap(ido)
    IN  /\ ~Panics(ido, into_ordered_iterator)
        /\ Visited(ido, into_ordered_iterator) = [ i \in 1..g |-> i - 1 ]
        /\ Yielded(ido, into_ordered_iterator) =
              [ i \in 1..g |->
                  <<ido.m_ordered[i - 1], ido.m_items[ido.m_ordered[i - 1]]>> ]
        /\ \A p \in DOMAIN ido.m_ordered :
              p > g => ido.m_ordered[p] \notin YieldedKeys(ido)

\* an entry is yielded, and a live entry behind the gap is not
C3_Witness ==
    /\ FirstGap(ido) = 1
    /\ \E p \in DOMAIN ido.m_ordered :
          /\ p > 1
          /\ ido.m_ordered[p] \in DOMAIN ido.m_items
          /\ ido.m_ordered[p] \notin YieldedKeys(ido)
    /\ Len(Yielded(ido, into_ordered_iterator)) = 1

(***************************************************************************)
(* C4.  After set_item(k, v) or a typed setter, in any reachable state,    *)
(* contains(k) is true, get_item(k) returns a value whose variant tag and  *)
(* payload are v's, and size() counts k exactly once.                      *)
(***************************************************************************)
C4_SetStoresValue ==
    [][ IsSetCall(last') =>
          /\ contains(ido', last'.key)
          /\ StoredAsPassed(ido', last')
          /\ size(ido') = size(ido) + (IF contains(ido, last'.key) THEN 0 ELSE 1)
          /\ size(ido') = Cardinality({ k \in Keys : contains(ido', k) })
      ]_vars

\* a set of a new key beside a key that update brought in
C4_Witness ==
    /\ IsSetCall(last)
    /\ ~Had(last)
    /\ size(ido) = 2
    /\ ido.m_idx = 1

(***************************************************************************)
(* C5.  A set of a key that is present replaces its value and its variant  *)
(* tag and leaves size() unchanged: get_item(k) returns the new value, the *)
(* typed getter of the old variant returns absent when the new variant     *)
(* differs, and no other key's value changes.                              *)
(***************************************************************************)
C5_OverwriteReplaces ==
    [][ (IsSetCall(last') /\ Had(last')) =>
          LET k == last'.key
              old == ido.m_items[k]
              now == ido'.m_items[k]
          IN  /\ size(ido') = size(ido)
              /\ StoredAsPassed(ido', last')
              /\ get_item(ido', k) = Some(now)
              /\ (now.m_type # old.m_type =>
                     TypedGet(ido', k, old.m_type) = None)
              /\ \A j \in Keys \ {k} : get_item(ido', j) = get_item(ido, j)
      ]_vars

\* an INTEGER was set over a STRING while another key is held
C5_Witness ==
    /\ last.op = "set_integer"
    /\ last.was = Some(STRING_T)
    /\ size(ido) = 2
    /\ get_string(ido, last.key) = None
    /\ get_i64(ido, last.key) = Some(last.arg)

(***************************************************************************)
(* C6.  delete_item(k) on a key that is present makes contains(k) false,   *)
(* lowers size() by exactly one, removes k's order-index entry, so that an *)
(* ordered iteration does not yield k afterwards, and leaves the value of  *)
(* every other key unchanged.                                              *)
(***************************************************************************)
C6_DeleteRemovesKey ==
    [][ (last'.op = "delete_item" /\ Had(last')) =>
          LET k == last'.key
          IN  /\ ~contains(ido', k)
              /\ size(ido') = size(ido) - 1
              /\ \A p \in DOMAIN ido'.m_ordered : ido'.m_ordered[p] # k
              /\ k \notin YieldedKeys(ido')
              /\ \A j \in Keys \ {k} : get_item(ido', j) = get_item(ido, j)
      ]_vars

(***************************************************************************)
(* C7.  delete_item(k) on a key that the value map does not hold changes   *)
(* nothing: the value map, the order index and the counter stay as they    *)
(* are, in every reachable state.                                          *)
(***************************************************************************)
C7_DeleteAbsentIsNoOp ==
    [][ (last'.op = "delete_item" /\ ~Had(last')) =>
          /\ ido'.m_items = ido.m_items
          /\ ido'.m_ordered = ido.m_ordered
          /\ ido'.m_idx = ido.m_idx
      ]_vars

\* the absent key was deleted from a container that holds the other key
\* behind a gap
C7_Witness ==
    /\ last.op = "delete_item"
    /\ ~Had(last)
    /\ size(ido) = 1
    /\ ido.m_idx >= 2
    /\ 0 \notin DOMAIN ido.m_ordered
    /\ ido.m_ordered # << >>

(***************************************************************************)
(* C8.  After clear(), size() is 0, contains(k) is false for every k, the  *)
(* counter is 0 and the next set gets position 0; from then on every       *)
(* sequence of calls gives the same observable results (contains, getters, *)
(* size, ordered iteration, to_string) as the same sequence on a newly     *)
(* constructed container.                                                  *)
(***************************************************************************)
Observation(s) ==
    [ contains |-> [ k \in Keys |-> contains(s, k) ],
      types |-> [ k \in Keys |-> { ty \in IdoItemType : is_type(s, k, ty) } ],
      items |-> [ k \in Keys |-> get_item(s, k) ],
      strings |-> [ k \in Keys |-> get_string(s, k) ],
      integers |-> [ k \in Keys |-> get_i64(s, k) ],
      floats |-> [ k \in Keys |-> get_f64(s, k) ],
      size |-> size(s),
      yielded |-> Yielded(s, into_ordered_iterator),
      panics |-> Panics(s, into_ordered_iterator),
      text |-> to_string(s) ]

\* what a clear() step leaves, and the position of the set that follows it
C8_AfterClear ==
    /\ last'.op = "clear" =>
          /\ size(ido') = 0
          /\ \A k \in Keys : ~contains(ido', k)
          /\ ido'.m_idx = 0
    /\ (last.op = "clear" /\ RanSetItem(last')) =>
          ido'.m_items[last'.key].m_index = 0

\* C8: ido and the container constructed at its last clear() are observed
\* alike in every state, and every step satisfies C8_AfterClear
C8_ClearGivesNewContainer ==
    /\ [](Observation(ido) = Observation(fresh))
    /\ [][C8_AfterClear]_vars

\* two keys were set after a clear() of a container that had handed out
\* more positions before
C8_Witness ==
    /\ Cardinality(assigned) > Len(recent)
    /\ Len(recent) >= 2
    /\ size(ido) = 2
    /\ fresh.m_idx = Len(recent)

(***************************************************************************)
(* C9.  As claimed: order-index positions are never reused in a            *)
(* container's lifetime; no position is handed to two set operations, and  *)
(* the positions handed out form a strictly increasing sequence starting   *)
(* at 0.                                                                   *)
(***************************************************************************)
C9_PositionsNeverReused ==
    [][ RanSetItem(last') =>
          LET pos == ido'.m_items[last'.key].m_index
          IN  /\ pos \notin assigned
              /\ \A p \in assigned : p < pos
              /\ (assigned = {} => pos = 0)
      ]_vars

(***************************************************************************)
(* C9, amended.  Positions are not reused between two clears: the          *)
(* positions that set operations were handed since the construction of the *)
(* container or its last clear() are 0, 1, 2, ... in the order of the      *)
(* calls, so they are all different and strictly increasing from 0.        *)
(***************************************************************************)
C9_PositionsIncreaseSinceClear ==
    /\ \A i \in 1..Len(recent) : recent[i] = i - 1
    /\ ido.m_idx = Len(recent)

\* positions 0 and 1 were handed out again after a clear()
C9_Witness ==
    /\ Len(recent) = 2
    /\ Cardinality(assigned) = 3
    /\ RanSetItem(last)

(***************************************************************************)
(* C10.  append_array(k, c) on a key that is absent or holds no ARRAY      *)
(* first replaces the entry by an empty ARRAY through set_item (the old    *)
(* value is discarded, k's old order entry is dropped, the position is the *)
(* counter and the counter goes up by exactly one), and the array then     *)
(* holds exactly [c]; on a key that holds an ARRAY it leaves the counter,  *)
(* the order index and k's stored position unchanged.                      *)
(***************************************************************************)
C10_AppendArrayFrame ==
    [][ last'.op = "append_array" =>
          LET k == last'.key
          IN  IF last'.was # Some(ARRAY_T)
              THEN /\ ido'.m_items[k].m_type = ARRAY_T
                   /\ ido'.m_items[k].m_array = <<last'.arg>>
                   /\ ido'.m_items[k].m_string = IdoItem_new.m_string
                   /\ ido'.m_items[k].m_integer = IdoItem_new.m_integer
                   /\ ido'.m_items[k].m_float = IdoItem_new.m_float
                   /\ ido'.m_items[k].m_index = ido.m_idx
                   /\ ido'.m_idx = ido.m_idx + 1
                   /\ { p \in DOMAIN ido'.m_ordered : ido'.m_ordered[p] = k }
                         = {ido.m_idx}
              ELSE /\ ido'.m_idx = ido.m_idx
                   /\ ido'.m_ordered = ido.m_ordered
                   /\ ido'.m_items[k].m_index = ido.m_items[k].m_index
      ]_vars


(***************************************************************************)
(* C11.  Successive append_array calls on a key accumulate: a call on a    *)
(* key that holds no ARRAY leaves the array [c], a call on a key that      *)
(* holds an ARRAY leaves the earlier elements in their order followed by   *)
(* c, and is_type(k, ARRAY) is true after either; so n calls on a fresh    *)
(* key with no other write to it leave c1..cn in push order.               *)
(***************************************************************************)
C11_AppendAccumulates ==
    [][ last'.op = "append_array" =>
          LET k == last'.key
              earlier == IF last'.was = Some(ARRAY_T)
                         THEN ido.m_items[k].m_array
                         ELSE << >>
          IN  /\ is_type(ido', k, ARRAY_T)
              /\ get_item(ido', k) # None
              /\ get_item(ido', k)[1].m_array = Append(earlier, last'.arg)
              /\ Len(get_item(ido', k)[1].m_array) = Len(earlier) + 1
      ]_vars

\* the second append on a key: two different containers in push order
C11_Witness ==
    /\ last.op = "append_array"
    /\ last.was = Some(ARRAY_T)
    /\ last.arg = OtherA
    /\ get_item(ido, last.key) # None
    /\ get_item(ido, last.key)[1].m_array = <<new, OtherA>>


(***************************************************************************)
(* C12.  After a.update(b), for every key of b the receiver returns b's    *)
(* value and variant, every key of a that b does not hold keeps its value, *)
(* and a.size() is the number of keys in the union of the two key sets.    *)
(***************************************************************************)
C12_UpdateMerges ==
    [][ last'.op = "update" =>
          LET b == last'.arg
          IN  /\ \A k \in DOMAIN b.m_items :
                    /\ get_item(ido', k) = Some(b.m_items[k])
                    /\ is_type(ido', k, b.m_items[k].m_type)
                    /\ TypedGet(ido', k, b.m_items[k].m_type) =
                          TypedGet(b, k, b.m_items[k].m_type)
              /\ \A k \in Keys \ DOMAIN b.m_items :
                    get_item(ido', k) = get_item(ido, k)
              /\ size(ido') =
                    Cardinality({ k \in Keys : contains(ido, k) \/ contains(b, k) })
      ]_vars

\* update from a container that holds key 2 only, into one that holds key 1
C12_Witness ==
    /\ last.op = "update"
    /\ last.arg = OtherB
    /\ size(ido) = 2
    /\ is_type(ido, 1, STRING_T)
    /\ get_i64(ido, 2) = Some(I64(32))


(***************************************************************************)
(* C13.  update(other) leaves the receiver's order index and counter       *)
(* unchanged, so a key that the receiver holds through update only (no set *)
(* operation was given the key since the container was constructed or      *)
(* cleared) has no order-index entry, is not yielded by an ordered         *)
(* iteration and is not rendered by to_string (the text is the one of the  *)
(* container without the key), although contains, size and the getters see *)
(* it.                                                                     *)
(***************************************************************************)
C13_UpdateFrame ==
    last'.op = "update" =>
        /\ ido'.m_ordered = ido.m_ordered
        /\ ido'.m_idx = ido.m_idx

C13_UpdateOnlyKey(k) ==
    /\ \A p \in DOMAIN ido.m_ordered : ido.m_ordered[p] # k
    /\ k \notin YieldedKeys(ido)
    /\ to_string(ido) = to_string([ ido EXCEPT !.m_items = MapRemove(@, k) ])
    /\ contains(ido, k)
    /\ size(ido) = Cardinality({ j \in Keys : contains(ido, j) })
    /\ get_item(ido, k) # None
    /\ ido.m_items[k].m_type \in {STRING_T, INTEGER_T, FLOAT_T} =>
          TypedGet(ido, k, ido.m_items[k].m_type) # None

\* C13: every update step leaves the order index and the counter, and in
\* every state the keys held through update only are seen but not iterated
C13_UpdateSkipsOrderIndex ==
    /\ [](\A k \in (DOMAIN ido.m_items) \ written : C13_UpdateOnlyKey(k))
    /\ [][C13_UpdateFrame]_vars

\* key 1 was set, key 2 came through update: the text renders key 1 only
C13_Witness ==
    /\ last.op = "update"
    /\ written = {1}
    /\ DOMAIN ido.m_items = {1, 2}
    /\ YieldedKeys(ido) = {1}
    /\ to_string(ido) = <<"1", "=", "A">>
    /\ get_i64(ido, 2) = Some(I64(32))


(***************************************************************************)
(* C14.  A typed getter returns a value if and only if the key is present  *)
(* and its variant tag is the getter's (STRING for get_string, INTEGER for *)
(* every get_i* and get_u*, FLOAT for get_f64); for an absent key and for  *)
(* a present key of another variant it returns the same None, and never    *)
(* faults: every result is an Option, None or Some of one value.  The      *)
(* value returned by get_string, get_i64 and get_f64 is the stored         *)
(* payload.                                                                *)
(***************************************************************************)
\* the keys of the calls and a key that no call uses
QueryKeys == Keys \cup {3}

\* what the eight integer getters return
IntegerGets(s, k) ==
    << get_i64(s, k), get_i32(s, k), get_i16(s, k), get_i8(s, k),
       get_u64(s, k), get_u32(s, k), get_u16(s, k), get_u8(s, k) >>

HoldsVariant(s, k, ty) ==
    IF contains(s, k) THEN s.m_items[k].m_type = ty ELSE FALSE

C14_TypedGetters ==
    \A k \in QueryKeys :
        /\ get_string(ido, k) # None <=> HoldsVariant(ido, k, STRING_T)
        /\ get_f64(ido, k) # None <=> HoldsVariant(ido, k, FLOAT_T)
        /\ \A i \in 1..Len(IntegerGets(ido, k)) :
              /\ IntegerGets(ido, k)[i] # None <=> HoldsVariant(ido, k, INTEGER_T)
              /\ Len(IntegerGets(ido, k)[i]) \in {0, 1}
        /\ Len(get_string(ido, k)) \in {0, 1}
        /\ Len(get_f64(ido, k)) \in {0, 1}
        /\ HoldsVariant(ido, k, STRING_T) =>
              get_string(ido, k) = Some(ido.m_items[k].m_string)
        /\ HoldsVariant(ido, k, INTEGER_T) =>
              get_i64(ido, k) = Some(ido.m_items[k].m_integer)
        /\ HoldsVariant(ido, k, FLOAT_T) =>
              get_f64(ido, k) = Some(ido.m_items[k].m_float)

\* key 1 holds a STRING, key 2 an INTEGER: each getter answers for one key
C14_Witness ==
    /\ is_type(ido, 1, STRING_T)
    /\ is_type(ido, 2, INTEGER_T)
    /\ get_i32(ido, 1) = None
    /\ get_string(ido, 1) # None
    /\ get_i32(ido, 2) # None
    /\ get_string(ido, 2) = None
    /\ get_f64(ido, 3) = None


(***************************************************************************)
(* C15.  is_type(k, T) is true exactly when k is present and its variant   *)
(* tag is T: false for an absent key and for a present key of another      *)
(* variant, true for at most one T per key.  It tracks the most recent     *)
(* write to k: the variant of the setter, of the item given to set_item,   *)
(* of the updating container's item, ARRAY after append_array, and no      *)
(* variant after delete_item.                                              *)
(***************************************************************************)
\* the variants that is_type reports for a key
TypesOf(s, k) == { ty \in IdoItemType : is_type(s, k, ty) }

\* the variant that the call l wrote at its key
WrittenVariant(l) ==
    CASE l.op = "set_string" -> STRING_T
      [] l.op = "set_integer" -> INTEGER_T
      [] l.op = "set_f64" -> FLOAT_T
      [] l.op = "set_item" -> l.arg.m_type
      [] l.op = "append_array" -> ARRAY_T

C15_IsTypeTracksVariant ==
    /\ \A k \in QueryKeys :
          /\ \A ty \in IdoItemType :
                is_type(ido, k, ty) <=>
                    (get_item(ido, k) # None /\ get_item(ido, k)[1].m_type = ty)
          /\ Cardinality(TypesOf(ido, k)) = (IF contains(ido, k) THEN 1 ELSE 0)
    /\ (IsSetCall(last) \/ last.op = "append_array") =>
          TypesOf(ido, last.key) = {WrittenVariant(last)}
    /\ last.op = "update" =>
          \A k \in DOMAIN last.arg.m_items :
              TypesOf(ido, k) = {last.arg.m_items[k].m_type}
    /\ last.op = "delete_item" => TypesOf(ido, last.key) = {}

\* append_array turned a STRING key into an ARRAY
C15_Witness ==
    /\ last.op = "append_array"
    /\ last.was = Some(STRING_T)
    /\ is_type(ido, last.key, ARRAY_T)
    /\ ~is_type(ido, last.key, STRING_T)
    /\ TypesOf(ido, 3) = {}


(***************************************************************************)
(* C16.  Serialization recurses into array elements in order: d of         *)
(* example_1.rs serializes to                                              *)
(* "1=Blah,2=More Blah,3=[100=nested,101=nested_two],4=32"; and in every   *)
(* state whose iterated ARRAY entries hold one element each, the text is   *)
(* the iterated entries in position order, joined by commas, a scalar      *)
(* entry as key=value and an ARRAY entry as key=[to_string of the          *)
(* element].                                                               *)
(***************************************************************************)
Example_text ==
    <<"1", "=">> \o Blah \o <<",", "2", "=">> \o MoreBlah
        \o <<",", "3", "=", "[", "1", "0", "0", "=">> \o Nested
        \o <<",", "1", "0", "1", "=">> \o NestedTwo
        \o <<"]", ",", "4", "=", "3", "2">>

\* the segment of one iterated entry <<key, item>>
Segment(entry) ==
    IF entry[2].m_type = ARRAY_T
    THEN IntToString(entry[1]) \o <<"=", "[">>
             \o to_string(entry[2].m_array[1]) \o <<"]">>
    ELSE IntToString(entry[1]) \o <<"=">> \o as_string(entry[2])[1]

RECURSIVE JoinSegments(_, _)
JoinSegments(entries, i) ==
    IF i > Len(entries) THEN << >>
    ELSE (IF i > 1 THEN <<",">> ELSE << >>)
             \o Segment(entries[i]) \o JoinSegments(entries, i + 1)

\* every iterated ARRAY entry holds exactly one element
SingleElementArrays(s) ==
    \A i \in 1..Len(Yielded(s, into_ordered_iterator)) :
        Yielded(s, into_ordered_iterator)[i][2].m_type = ARRAY_T =>
            Len(Yielded(s, into_ordered_iterator)[i][2].m_array) = 1

C16_SerializesNested ==
    /\ ido = Example_d => to_string(ido) = Example_text
    /\ SingleElementArrays(ido) =>
          to_string(ido) = JoinSegments(Yielded(ido, into_ordered_iterator), 1)

\* d of the example after the last call of main
C16_Witness ==
    /\ ido = Example_d
    /\ last.op = "set_integer"
    /\ Len(Yielded(ido, into_ordered_iterator)) = 4
    /\ to_string(ido) = Example_text


(***************************************************************************)
(* C17.  An ARRAY entry that holds N containers is rendered as N segments  *)
(* key=[to_string of the element], in push order, and these segments are   *)
(* joined by commas like any other entries: whenever the iterated ARRAY    *)
(* entries hold at least one element each, the text is the comma-joined    *)
(* sequence of the segments of the iterated entries.                       *)
(***************************************************************************)
\* the segments of one iterated entry <<key, item>>, one per array element
ElementSegments(entry) ==
    IF entry[2].m_type = ARRAY_T
    THEN [ i \in 1..Len(entry[2].m_array) |->
             IntToString(entry[1]) \o <<"=", "[">>
                 \o to_string(entry[2].m_array[i]) \o <<"]">> ]
    ELSE << IntToString(entry[1]) \o <<"=">> \o as_string(entry[2])[1] >>

RECURSIVE AllSegments(_, _)
AllSegments(entries, i) ==
    IF i > Len(entries) THEN << >>
    ELSE ElementSegments(entries[i]) \o AllSegments(entries, i + 1)

RECURSIVE CommaJoined(_, _)
CommaJoined(segments, i) ==
    IF i > Len(segments) THEN << >>
    ELSE (IF i > 1 THEN <<",">> ELSE << >>)
             \o segments[i] \o CommaJoined(segments, i + 1)

\* every iterated ARRAY entry holds at least one element
NoEmptyArrays(s) ==
    \A i \in 1..Len(Yielded(s, into_ordered_iterator)) :
        Yielded(s, into_ordered_iterator)[i][2].m_type = ARRAY_T =>
            Len(Yielded(s, into_ordered_iterator)[i][2].m_array) >= 1

C17_ArraySegmentsCommaJoined ==
    (~Panics(ido, into_ordered_iterator) /\ NoEmptyArrays(ido)) =>
        to_string(ido) =
            CommaJoined(AllSegments(Yielded(ido, into_ordered_iterator), 1), 1)

(***************************************************************************)
(* C18.  In every reachable state, the ones with an ARRAY entry of zero    *)
(* elements stored through set_item included, the text of to_string has    *)
(* no leading comma, no trailing comma and no two adjacent commas.         *)
(***************************************************************************)
C18_NoStrayCommas ==
    LET text == to_string(ido)
    IN  (text # Panic /\ text # << >>) =>
            /\ text[1] # ","
            /\ text[Len(text)] # ","
            /\ \A i \in 1..(Len(text) - 1) :
                  ~(text[i] = "," /\ text[i + 1] = ",")


(***************************************************************************)
(* C20.  For every stored i64 v and every width w in {8, 16, 32, 64}, the  *)
(* getters get_i<w> and get_u<w> on an INTEGER key return Some of v modulo *)
(* 2^w, read as a signed respectively unsigned number of w bits:           *)
(* set_integer(k, 300) then get_i8(k) returns 44, and a value that fits    *)
(* the width is returned unchanged.                                        *)
(***************************************************************************)
\* the number that a pattern of 8, 16 or 32 bits stands for
SignedValue(p, bits) ==
    CASE bits = 8 -> IF p[1] >= 2^7 THEN p[1] - 2^8 ELSE p[1]
      [] bits = 16 -> IF p[1] >= 2^15 THEN p[1] - 2^16 ELSE p[1]
      [] bits = 32 -> (IF p[2] >= 2^15 THEN p[2] - 2^16 ELSE p[2]) * 2^16 + p[1]

\* the unsigned patterns of 32 and of 64 bits of n modulo 2^32 and 2^64,
\* for a number n that fits 32 bits
UnsignedPattern32(n) ==
    IF n >= 0 THEN <<n % 2^16, n \div 2^16>>
    ELSE <<2^16 - 1 - ((-n - 1) % 2^16), 2^16 - 1 - ((-n - 1) \div 2^16)>>

UnsignedPattern64(n) ==
    UnsignedPattern32(n) \o
        (IF n >= 0 THEN <<0, 0>> ELSE <<2^16 - 1, 2^16 - 1>>)

\* the i64 is a number of 32 bits, sign-extended
FitsI32(v) ==
    /\ v[3] = v[4]
    /\ v[3] = (IF v[2] >= 2^15 THEN 2^16 - 1 ELSE 0)

\* the results for the values that 32 bits do not hold
WideResults(v) ==
    CASE v = <<300, 0, 1, 0>> ->
            [ i8 |-> 44, u8 |-> 44, i16 |-> 300, u16 |-> 300, i32 |-> 300,
              u32 |-> <<300, 0>> ]
      [] v = <<65407, 65535, 65279, 65535>> ->
            [ i8 |-> 127, u8 |-> 127, i16 |-> -129, u16 |-> 65407,
              i32 |-> -129, u32 |-> <<65407, 65535>> ]
      [] v = <<0, 32768, 0, 0>> ->
            [ i8 |-> 0, u8 |-> 0, i16 |-> 0, u16 |-> 0,
              i32 |-> -2147483647 - 1, u32 |-> <<0, 32768>> ]
      [] v = I64_MAX ->
            [ i8 |-> -1, u8 |-> 255, i16 |-> -1, u16 |-> 65535, i32 |-> -1,
              u32 |-> <<65535, 65535>> ]
      [] v = I64_MIN ->
            [ i8 |-> 0, u8 |-> 0, i16 |-> 0, u16 |-> 0, i32 |-> 0,
              u32 |-> <<0, 0>> ]

\* v modulo 2^w for a number n that fits 32 bits; the signed reading of
\* n modulo 2^w is the one number of [-2^(w-1), 2^(w-1)) congruent to n
NarrowedAsClaimed(s, k, n) ==
    /\ SignedValue(get_i8(s, k)[1], 8) = (((n % 2^8) + 2^7) % 2^8) - 2^7
    /\ get_u8(s, k)[1] = <<n % 2^8>>
    /\ SignedValue(get_i16(s, k)[1], 16) = (((n % 2^16) + 2^15) % 2^16) - 2^15
    /\ get_u16(s, k)[1] = <<n % 2^16>>
    /\ SignedValue(get_i32(s, k)[1], 32) = n
    /\ get_u32(s, k)[1] = UnsignedPattern32(n)
    /\ get_i64(s, k)[1] = I64(n)
    /\ get_u64(s, k)[1] = UnsignedPattern64(n)
    /\ (n >= -(2^7) /\ n < 2^7) => SignedValue(get_i8(s, k)[1], 8) = n
    /\ (n >= 0 /\ n < 2^8) => get_u8(s, k)[1] = <<n>>
    /\ (n >= -(2^15) /\ n < 2^15) => SignedValue(get_i16(s, k)[1], 16) = n
    /\ (n >= 0 /\ n < 2^16) => get_u16(s, k)[1] = <<n>>
    /\ n = 300 => get_i8(s, k) = Some(<<44>>)

WideAsClaimed(s, k, v) ==
    /\ SignedValue(get_i8(s, k)[1], 8) = WideResults(v).i8
    /\ get_u8(s, k)[1] = <<WideResults(v).u8>>
    /\ SignedValue(get_i16(s, k)[1], 16) = WideResults(v).i16
    /\ get_u16(s, k)[1] = <<WideResults(v).u16>>
    /\ SignedValue(get_i32(s, k)[1], 32) = WideResults(v).i32
    /\ get_u32(s, k)[1] = WideResults(v).u32
    /\ get_i64(s, k)[1] = v
    /\ get_u64(s, k)[1] = v

C20_GettersNarrowModulo ==
    \A k \in DOMAIN ido.m_items :
        is_type(ido, k, INTEGER_T) =>
            LET v == ido.m_items[k].m_integer
            IN  /\ \A i \in 1..Len(IntegerGets(ido, k)) :
                      Len(IntegerGets(ido, k)[i]) = 1
                /\ IF FitsI32(v)
                   THEN NarrowedAsClaimed(ido, k, SignedValue(<<v[1], v[2]>>, 32))
                   ELSE WideAsClaimed(ido, k, v)

\* key 1 holds 300 and key 2 holds 2^32 + 300: get_i8 returns 44 for both
C20_Witness ==
    /\ get_i64(ido, 1) = Some(I64(300))
    /\ get_i8(ido, 1) = Some(<<44>>)
    /\ get_i64(ido, 2) = Some(<<300, 0, 1, 0>>)
    /\ get_i8(ido, 2) = Some(<<44>>)
    /\ get_i32(ido, 2) = Some(<<300, 0>>)


(***************************************************************************)
(* C21.  After any sequence of public calls, update included, ordered      *)
(* iteration and to_string never fault: every order-index entry that the   *)
(* iteration can reach (the positions below the first gap) maps to a key   *)
(* that the value map holds, so the unwrap in next succeeds.               *)
(***************************************************************************)
C21_IterationNeverFaults ==
    /\ \A p \in DOMAIN ido.m_ordered :
          p < FirstGap(ido) => ido.m_ordered[p] \in DOMAIN ido.m_items
    /\ ~Panics(ido, into_ordered_iterator)
    /\ to_string(ido) # Panic


(***************************************************************************)
(* C22.  In every reachable state, the ones after update included,         *)
(* delete_item(k) and a set_item(k, v) on a key that is present remove     *)
(* from the order index only an entry that maps to k: the order-index      *)
(* entries of every other key are left unchanged.                          *)
(***************************************************************************)
C22_RemovesOwnEntryOnly ==
    [][ ((last'.op = "delete_item" \/ RanSetItem(last')) /\ Had(last')) =>
          \A p \in DOMAIN ido.m_ordered :
              ido.m_ordered[p] # last'.key =>
                  /\ p \in DOMAIN ido'.m_ordered
                  /\ ido'.m_ordered[p] = ido.m_ordered[p]
      ]_vars


(***************************************************************************)
(* C23.  The counter goes up by exactly one on every set_item (new key or  *)
(* overwrite, the initializing set inside append_array included) and the   *)
(* new entry's position is the counter's value before the increment;       *)
(* delete_item, append_array on a key that holds an ARRAY and update leave *)
(* the counter unchanged, and only clear lowers it.                        *)
(***************************************************************************)
C23_CounterSteps ==
    /\ RanSetItem(last') =>
          /\ ido'.m_idx = ido.m_idx + 1
          /\ ido'.m_items[last'.key].m_index = ido.m_idx
          /\ ido.m_idx \in DOMAIN ido'.m_ordered
          /\ ido'.m_ordered[ido.m_idx] = last'.key
    /\ (last'.op \in {"delete_item", "update"} \/
        (last'.op = "append_array" /\ ~RanSetItem(last'))) =>
          ido'.m_idx = ido.m_idx
    /\ last'.op = "clear" => ido'.m_idx = 0
    /\ ido'.m_idx < ido.m_idx => last'.op = "clear"

\* C23: every step changes the counter as C23_CounterSteps says
C23_CounterPlusOnePerSet == [][C23_CounterSteps]_vars

\* an overwrite: one key is held, and it took positions 0 and 1
C23_Witness ==
    /\ IsSetCall(last)
    /\ Had(last)
    /\ size(ido) = 1
    /\ ido.m_idx = 2
    /\ ido.m_items[last.key].m_index = 1


(***************************************************************************)
(* C24.  In every reachable state, after update from another reachable     *)
(* container too, each stored item's m_key is the key it is stored under:  *)
(* get_item(k).m_key = k for every k of the value map, whatever m_key the  *)
(* item given to set_item carried.                                         *)
(***************************************************************************)
C24_StoredKeyIsKey ==
    \A k \in DOMAIN ido.m_items :
        /\ get_item(ido, k) # None
        /\ get_item(ido, k)[1].m_key = k

\* set_item(2, item) with an item whose m_key was 1, beside a key that
\* update brought in
C24_Witness ==
    /\ last.op = "set_item"
    /\ last.key = 2
    /\ last.arg.m_key = 1
    /\ get_item(ido, 2)[1].m_key = 2
    /\ 1 \in DOMAIN ido.m_items
    /\ 1 \notin written


(***************************************************************************)
(* C25.  If since its construction or its last clear the container was     *)
(* changed only by sets of keys it did not hold and by append_array calls  *)
(* that touched no present non-ARRAY key (no overwrite, no delete_item, no *)
(* update), then an ordered iteration yields every live entry exactly      *)
(* once, in the order in which the keys were first set, and the number of  *)
(* entries yielded is size().                                              *)
(***************************************************************************)
\* Without update, the history since the last clear is of that kind exactly
\* when every set operation was given another key (as many positions
\* handed out as keys written) and every written key is still held.
GapFreeHistory ==
    /\ Len(recent) = Cardinality(written)
    /\ size(ido) = Cardinality(written)

\* the i-th entry yielded is the one that the i-th set operation stored: it
\* carries the position recent[i] handed out by that operation
C25_GapFreeIteratesAll ==
    GapFreeHistory =>
        LET y == Yielded(ido, into_ordered_iterator)
        IN  /\ ~Panics(ido, into_ordered_iterator)
            /\ Len(y) = size(ido)
            /\ { y[i][1] : i \in 1..Len(y) } = DOMAIN ido.m_items
            /\ \A i, j \in 1..Len(y) : y[i][1] = y[j][1] => i = j
            /\ \A i \in 1..Len(y) :
                  /\ get_item(ido, y[i][1]) = Some(y[i][2])
                  /\ y[i][2].m_index = recent[i]

\* two keys were set and the first, an ARRAY, was appended to afterwards
C25_Witness ==
    /\ GapFreeHistory
    /\ last.op = "append_array"
    /\ last.was = Some(ARRAY_T)
    /\ ido.m_items[last.key].m_index = 0
    /\ size(ido) = 2
    /\ Len(Yielded(ido, into_ordered_iterator)) = 2


(***************************************************************************)
(* C26.  In every reachable state, after any sequence of public calls,     *)
(* update included, every position that the order index holds is strictly *)
(* smaller than the counter; so the position at which set_item inserts     *)
(* (the counter) is held by no entry, and the insert replaces no entry of  *)
(* another key.                                                            *)
(***************************************************************************)
C26_PositionsBelowCounter ==
    /\ \A p \in DOMAIN ido.m_ordered : p < ido.m_idx
    /\ ido.m_idx \notin DOMAIN ido.m_ordered

\* after an update: position 1 is held behind a gap, the counter is 2
C26_Witness ==
    /\ last.op = "update"
    /\ DOMAIN ido.m_ordered = {1}
    /\ ido.m_idx = 2
    /\ size(ido) = 2

=============================================================================
